---------------------------- MODULE Spec2Model ----------------------------
(***************************************************************************)
(* A model of lib/gui/control_helper.py: the auto-fill column container,   *)
(* the slider rounding callback, the file-browser dialog routines and the  *)
(* control panel build.                                                    *)
(*                                                                         *)
(* Text is a sequence of one-character strings; S("ab") = <<"a", "b">>.    *)
(* A widget is named by its path, a sequence of strings.                   *)
(***************************************************************************)
EXTENDS Integers, Sequences, FiniteSets, TLC

VARIABLES
    \* ---- AutoFillContainer under test (SpecContainer)
    holder,      \* the container: [parent, columns, _items, _idx, subframes]
    calls,       \* the frames returned by `subframe`, in call order
    reads,       \* how many times `last_subframe` was read
    lastRead,    \* the frame the latest `last_subframe` read returned
    readAt,      \* how many `subframe` calls preceded that read
    \* ---- one slider and its callback (SpecSlider)
    d_type,      \* "int" or "float"
    round_to,    \* the step (int) or the number of decimals (float)
    min_max,     \* <<min, max>>
    value,       \* the raw slider value, in units of 1/Scale
    var,         \* the bound variable: the number num/den
    moved,       \* whether the callback has run
    \* ---- one FileBrowser and its bound variable (SpecBrowser)
    browser,        \* the dialog kinds of the sysbrowser spec, one button each
    action_option,  \* the action option: its name, or once resolved its variable
    command,        \* the sysbrowser spec's command, or None
    destination,    \* the sysbrowser spec's destination, or None
    action_value,   \* the current value of the action option's variable
    filepath,       \* the bound variable the buttons write to
    retfile,        \* what the latest FileHandler dialog returned
    lastAsk,        \* the routine the latest click ran ("none": no click yet,
                    \* or the variable was edited since)
    handler,        \* the arguments of the latest FileHandler call
    raised,         \* the exception the latest click raised, or "none"
    \* ---- one ControlBuilder construction (SpecBuilder)
    args,        \* the arguments of ControlBuilder(...)
    ctl,         \* the ControlBuilder: not yet constructed, built, or raised
    \* ---- one ControlPanel and its build (Spec)
    options,       \* the options mapping, in its order: entries [key, val]
    selected,      \* per entry: val["selected"], a variable of tk_vars, or 0
    gui_option,    \* per entry: val["_gui_option"], the ControlBuilder, or None
    radio_columns, \* the columns of radio groups and check button regions
    optsframe,     \* the panel's AutoFillContainer of group frames
    group_frames,  \* the groups in creation order: [group, frame, text,
                   \* chkbtns, chk_packed]
    tk_vars,       \* the bound variables created, in creation order
    builders,      \* the keys a ControlBuilder was constructed for, in order
    pc,            \* build_panel's position: "build", "context", "done", "raised"
    pos,           \* the entry the loop at pc is about to visit
    error,         \* the exception build_panel ended with, or "none"
    clicks,        \* the entries whose context button was clicked, in order
    handled        \* the arguments of the latest FileHandler call, or None

containerVars == <<holder, calls, reads, lastRead, readAt>>
sliderVars == <<d_type, round_to, min_max, value, var, moved>>
browserVars == <<browser, action_option, command, destination, action_value,
                 filepath, retfile, lastAsk, handler, raised>>

builderVars == <<args, ctl>>

panelVars == <<options, selected, gui_option, radio_columns, optsframe,
               group_frames, tk_vars, builders, pc, pos, error, clicks, handled>>

vars == <<containerVars, sliderVars, browserVars, builderVars, panelVars>>


\* ------------------------------------------------------------------ bounds

MaxColumns == 4
MaxCalls == 9
MaxReads == 2
\* slider bounds lie in -MaxAbs..MaxAbs, steps in 1..MaxStep, decimals in
\* 0..MaxDigits; a raw slider value is a multiple of 1/Scale
MaxAbs == 3
MaxStep == 3
MaxDigits == 2
Scale == 4
\* a multi-file dialog returns at most MaxFiles paths
MaxFiles == 2
\* radio buttons and check buttons are laid out in 1..MaxRadioColumns columns
MaxRadioColumns == 2
\* an options mapping has 1..MaxOptions entries
MaxOptions == 3
\* the context buttons of a panel are clicked at most MaxClicks times
MaxClicks == 2

\* ------------------------------------------------------------------ text

S(str) == [i \in 1..Len(str) |-> SubSeq(str, i, i)]

NoFrame == <<>>

\* Python values that are not text: None, a string, a tuple
None == [kind |-> "none"]
Str(s) == [kind |-> "str", val |-> s]
Tuple(t) == [kind |-> "tuple", val |-> t]
PyInt(n) == [kind |-> "int", val |-> n]
Bool(b) == [kind |-> "bool", val |-> b]

\* Python truthiness: None, "" and () are false
Truthy(v) == v.kind # "none" /\ v.val # <<>>

\* ------------------------------------------------------- Python str methods

Lowers == S("abcdefghijklmnopqrstuvwxyz")
Uppers == S("ABCDEFGHIJKLMNOPQRSTUVWXYZ")
Digits == S("0123456789")
Whitespace == {" ", "\n", "\t"}

InSeq(c, seq) == \E i \in DOMAIN seq : seq[i] = c
IndexIn(c, seq) == CHOOSE i \in DOMAIN seq : seq[i] = c

lower_char(c) == IF InSeq(c, Uppers) THEN Lowers[IndexIn(c, Uppers)] ELSE c
upper_char(c) == IF InSeq(c, Lowers) THEN Uppers[IndexIn(c, Lowers)] ELSE c
is_cased(c) == InSeq(c, Lowers) \/ InSeq(c, Uppers)

\* str.lower
lower(s) == [i \in DOMAIN s |-> lower_char(s[i])]

\* str.capitalize: the first character upper-cased, the rest lower-cased
capitalize(s) ==
    [i \in DOMAIN s |-> IF i = 1 THEN upper_char(s[i]) ELSE lower_char(s[i])]

\* str.title: a cased character is upper-cased after an uncased one (or at
\* the start) and lower-cased after a cased one
title(s) ==
    [i \in DOMAIN s |->
        IF i = 1 \/ ~is_cased(s[i - 1]) THEN upper_char(s[i]) ELSE lower_char(s[i])]

\* str.startswith
startswith(s, prefix) ==
    Len(s) >= Len(prefix) /\ SubSeq(s, 1, Len(prefix)) = prefix

drop(s, n) == SubSeq(s, n + 1, Len(s))

\* str.replace(old, new), old not empty: leftmost matches, not overlapping
RECURSIVE replace(_, _, _)
replace(s, old, new) ==
    IF s = <<>> THEN <<>>
    ELSE IF startswith(s, old) THEN new \o replace(drop(s, Len(old)), old, new)
    ELSE <<s[1]>> \o replace(Tail(s), old, new)

\* str.split(sep), sep not empty: the pieces between the separators, empty
\* pieces kept
RECURSIVE split_from(_, _, _)
split_from(s, sep, piece) ==
    IF s = <<>> THEN <<piece>>
    ELSE IF startswith(s, sep)
         THEN <<piece>> \o split_from(drop(s, Len(sep)), sep, <<>>)
    ELSE split_from(Tail(s), sep, Append(piece, s[1]))

split(s, sep) == split_from(s, sep, <<>>)

\* str.splitlines: the lines, without a last empty one
splitlines(s) ==
    LET pieces == split(s, <<"\n">>)
    IN  IF pieces[Len(pieces)] = <<>> THEN SubSeq(pieces, 1, Len(pieces) - 1)
        ELSE pieces

\* str.split(): the words between runs of whitespace
RECURSIVE words_from(_, _)
words_from(s, word) ==
    IF s = <<>> THEN (IF word = <<>> THEN <<>> ELSE <<word>>)
    ELSE IF s[1] \in Whitespace
         THEN (IF word = <<>> THEN <<>> ELSE <<word>>) \o words_from(Tail(s), <<>>)
    ELSE words_from(Tail(s), Append(word, s[1]))

split_words(s) == words_from(s, <<>>)

\* re.sub(r'[^A-Za-z0-9\-]+', '', s)
RECURSIVE strip_non_word(_)
strip_non_word(s) ==
    IF s = <<>> THEN <<>>
    ELSE IF is_cased(s[1]) \/ InSeq(s[1], Digits) \/ s[1] = "-"
         THEN <<s[1]>> \o strip_non_word(Tail(s))
    ELSE strip_non_word(Tail(s))

\* sep.join(parts)
RECURSIVE join(_, _)
join(sep, parts) ==
    IF parts = <<>> THEN <<>>
    ELSE IF Len(parts) = 1 THEN parts[1]
    ELSE parts[1] \o sep \o join(sep, Tail(parts))

\* ------------------------------------------------- class AutoFillContainer

set_subframes_nested(parent, cols) ==
    [idx \in 1..cols |-> Append(parent, ToString(idx - 1))]

\* set_subframes: one sub-frame per column named "<parent>_<idx>", or the
\* parent itself when there is a single column; _items counts the columns.
set_subframes(parent, cols) ==
    [idx \in 1..cols |->
        IF cols # 1 THEN Append(parent, ToString(idx - 1)) ELSE parent]

AutoFillContainer(parent, cols) ==
    [parent    |-> parent,
     columns   |-> cols,
     _items    |-> Len(set_subframes(parent, cols)),
     _idx      |-> 0,
     subframes |-> set_subframes(parent, cols)]

items(c) == c._items

next_idx_skip_last(idx, cols) == IF idx + 1 < cols - 1 THEN idx + 1 ELSE 0

\* subframe: next_idx = self._idx + 1 if self._idx + 1 != self.columns else 0
next_idx(idx, cols) == IF idx + 1 # cols THEN idx + 1 ELSE 0

\* subframe: the frame handed out (Python indexes from 0)
subframe_frame(c) == c.subframes[c._idx + 1]

\* subframe: the container after the call
subframe_after(c) == [c EXCEPT !._idx = next_idx(c._idx, c.columns)]

last_subframe_current(c) == c.subframes[c._idx + 1]

\* last_subframe: self.subframes[self.columns - 1]
last_subframe(c) == c.subframes[(c.columns - 1) + 1]

\* ---------------------------------------------------- set_slider_rounding

Abs(x) == IF x < 0 THEN -x ELSE x

RECURSIVE Pow10(_)
Pow10(n) == IF n = 0 THEN 1 ELSE 10 * Pow10(n - 1)

\* round(x, digits) of the float n/d, as the numerator over 10^digits is
\* computed by the caller: the integer nearest to n/d, a tie to the even one
RoundHalfEven(n, d) ==
    LET q == n \div d
        r == n % d
    IN  IF 2 * r < d THEN q
        ELSE IF 2 * r > d THEN q + 1
        ELSE IF q % 2 = 0 THEN q ELSE q + 1

\* int(float(value)): the raw value raw/Scale cut to its integer part, toward
\* zero
int_float(raw) == IF raw >= 0 THEN raw \div Scale ELSE -((-raw) \div Scale)

\* range(min_max[0], min_max[1] + round_to, round_to), for round_to >= 1
steps(mm, step) ==
    LET n == IF mm[2] + step > mm[1]
             THEN (mm[2] + step - mm[1] + step - 1) \div step
             ELSE 0
    IN  [k \in 1..n |-> mm[1] + (k - 1) * step]

\* min(steps, key=lambda x: abs(x - target)): the first element, in iteration
\* order, whose key no other element undercuts
min_by_key(seq, target) ==
    LET best == CHOOSE k \in 1..Len(seq) :
                   /\ \A j \in 1..Len(seq) :
                         Abs(seq[j] - target) >= Abs(seq[k] - target)
                   /\ \A j \in 1..(k - 1) :
                         Abs(seq[j] - target) > Abs(seq[k] - target)
    IN  seq[best]

\* set_slider_rounding: the value written to the bound variable
set_slider_rounding(raw, dt, rnd, mm) ==
    IF dt = "float"
    THEN [num |-> RoundHalfEven(raw * Pow10(rnd), Scale), den |-> Pow10(rnd)]
    ELSE [num |-> min_by_key(steps(mm, rnd), int_float(raw)), den |-> 1]

\* ------------------------------------------------------- class FileBrowser

\* "\"{}\"".format(fname)
quote(fname) == <<"\"">> \o fname \o <<"\"">>

final_names_comma(filenames) ==
    join(<<",">>, [i \in DOMAIN filenames |-> quote(filenames[i])])

\* ask_load_multi: " ".join("\"{}\"".format(fname) for fname in filenames)
final_names(filenames) ==
    join(<<" ">>, [i \in DOMAIN filenames |-> quote(filenames[i])])

\* The routines below give the bound variable's value after a click, from
\* its value before and the dialog's result.

\* ask_folder: if dirname: filepath.set(dirname)
ask_folder(path, dirname) == IF Truthy(dirname) THEN dirname.val ELSE path

\* ask_load: if filename: filepath.set(filename)
ask_load(path, filename) == IF Truthy(filename) THEN filename.val ELSE path

\* ask_load_multi: if filenames: filepath.set(final_names)
ask_load_multi(path, filenames) ==
    IF Truthy(filenames) THEN final_names(filenames.val) ELSE path

ask_save_if_not_none(path, filename) ==
    IF filename.kind # "none" THEN filename.val ELSE path

\* ask_save: if filename: filepath.set(filename)
ask_save(path, filename) == IF Truthy(filename) THEN filename.val ELSE path

\* ask_nothing: return
ask_nothing(path) == path

\* ask_context: if filename: filepath.set(filename)
ask_context(path, filename) == IF Truthy(filename) THEN filename.val ELSE path

\* FileHandler(handletype, filetypes, command=, action=, variable=): the call
handler_call(handletype, cmd, action, variable) ==
    [handletype |-> handletype, command |-> cmd, action |-> action,
     variable |-> variable]

\* The paths a dialog can return, and the results of the dialogs of the
\* external file handler: nothing (None, "" or ()), one path, several paths.
Paths == {S("a"), S("a b"), S("c")}
Nothing == {None, Str(<<>>), Tuple(<<>>)}
OnePath == Nothing \cup {Str(p) : p \in Paths}
SomePaths ==
    Nothing \cup UNION {{Tuple(t) : t \in [1..n -> Paths]} : n \in 1..MaxFiles}

\* The values the action option offers
Actions == {S("x"), S("y")}

HasButton(kind) == \E i \in DOMAIN browser : browser[i] = kind

\* ---------------------------------------------------- class ControlBuilder

\* FileBrowser.__init__: the sysbrowser dict's entries; the action option is
\* a name until set_context_action_option resolves it
FileBrowser(sysbrowser_dict) ==
    [browser       |-> sysbrowser_dict.browser,
     action_option |-> [resolved |-> FALSE, name |-> sysbrowser_dict.action_option],
     command       |-> sysbrowser_dict.command,
     destination   |-> sysbrowser_dict.destination]

\* Tooltip(widget, text=text, wraplength=wraplength)
Tooltip(widget, text, wraplength) ==
    [widget |-> widget, text |-> text, wraplength |-> wraplength]

format_helptext_single_newline(ttl, helptext) ==
    IF helptext = None THEN None
    ELSE LET raw == helptext.val
             marked ==
                 IF startswith(raw, S("R|"))
                 THEN replace(drop(raw, 2), S("\nL|"), S("\n - "))
                 ELSE replace(replace(raw, S("\n\t"), S("\n  - ")), S("%%"), S("%"))
             pieces == split(marked, S(". "))
         IN  Str(ttl \o S(" - ")
                 \o join(S(". "), [i \in DOMAIN pieces |-> capitalize(pieces[i])]))

\* format_helptext: None stays None; else the R| or the plain markers are
\* rewritten, every ". "-separated piece is capitalized and the title is put
\* in front
format_helptext(ttl, helptext) ==
    IF helptext = None THEN None
    ELSE LET raw == helptext.val
             marked ==
                 IF startswith(raw, S("R|"))
                 THEN replace(replace(drop(raw, 2), S("\nL|"), S("\n - ")),
                              S("\n"), S("\n\n"))
                 ELSE replace(replace(raw, S("\n\t"), S("\n  - ")), S("%%"), S("%"))
             pieces == split(marked, S(". "))
         IN  Str(ttl \o S(" - ")
                 \o join(S(". "), [i \in DOMAIN pieces |-> capitalize(pieces[i])]))

set_control_type_first(dtype, choices, is_radio) ==
    IF dtype = "bool" THEN "Checkbutton"
    ELSE IF dtype \in {"int", "float"} THEN "Scale"
    ELSE IF Truthy(choices) /\ is_radio THEN "Radiobutton"
    ELSE IF Truthy(choices) THEN "Combobox"
    ELSE "Entry"

\* set_control
set_control(dtype, choices, is_radio) ==
    IF Truthy(choices) /\ is_radio THEN "Radiobutton"
    ELSE IF Truthy(choices) THEN "Combobox"
    ELSE IF dtype = "bool" THEN "Checkbutton"
    ELSE IF dtype \in {"int", "float"} THEN "Scale"
    ELSE "Entry"

\* The strings Tcl reads as a boolean (their abbreviations and other letter
\* cases left out)
TclBooleans ==
    {S("0"), S("1"), S("true"), S("false"), S("yes"), S("no"), S("on"), S("off")}

\* tkinter's Variable.set as set_tk_var calls it: BooleanVar.set passes the
\* value through getboolean, which takes an int or bool, raises TclError for
\* a string that is no boolean and TypeError for anything else; the other
\* classes store what they are given
var_set(class, val) ==
    IF class # "BooleanVar" \/ val.kind \in {"int", "bool"} THEN "none"
    ELSE IF val.kind = "str"
         THEN (IF val.val \in TclBooleans THEN "none" ELSE "TclError")
    ELSE "TypeError"

\* tkinter's Variable.__init__ without a value: the class's own default
var_default(class) ==
    IF class = "BooleanVar" THEN Bool(FALSE)
    ELSE IF class = "StringVar" THEN Str(<<>>)
    ELSE PyInt(0)

\* set_tk_var: the variable's class, the value it holds and the exception
\* var.set(val) raised
set_tk_var(dtype, default, selected_value, blank_nones) ==
    LET class == IF dtype = "bool" THEN "BooleanVar"
                 ELSE IF dtype = "int" THEN "IntVar"
                 ELSE IF dtype = "float" THEN "DoubleVar"
                 ELSE "StringVar"
        val == IF selected_value = None THEN default ELSE selected_value
        set == IF val = None /\ blank_nones THEN Str(<<>>) ELSE val
    IN  [class  |-> class,
         val    |-> IF var_set(class, set) = "none" THEN set ELSE var_default(class),
         raised |-> var_set(class, set)]

\* radio_control: the help lines that are bullets
is_bullet(line) == startswith(line, S(" - "))

\* radio_control: a bullet's key, re.sub(..., '', line.split()[1].lower())
help_key(line) == strip_non_word(lower(split_words(line)[2]))

\* radio_control: a bullet's text, " ".join(line.split()[1:])
help_item(line) == join(S(" "), Tail(split_words(line)))

\* radio_control: helpitems[key], the text of the last bullet with that key
helpitems(all_help, key) ==
    LET last == CHOOSE i \in DOMAIN all_help :
                   /\ is_bullet(all_help[i]) /\ help_key(all_help[i]) = key
                   /\ \A j \in DOMAIN all_help :
                         (is_bullet(all_help[j]) /\ help_key(all_help[j]) = key)
                            => j <= i
    IN  help_item(all_help[last])

in_helpitems(all_help, key) ==
    \E i \in DOMAIN all_help : is_bullet(all_help[i]) /\ help_key(all_help[i]) = key

\* radio_control: the tooltip text of a matched choice
radio_helptext(all_help, choice) ==
    LET pieces == split(capitalize(helpitems(all_help, lower(choice))), S(". "))
    IN  all_help[1] \o S("\n\n - ")
        \o join(S(". "), [i \in DOMAIN pieces |-> capitalize(pieces[i])])

\* radio_control: the frames `radio_holder.subframe` hands out for n radios
RECURSIVE radio_frames(_, _)
radio_frames(radio_holder, n) ==
    IF n = 0 THEN <<>>
    ELSE <<subframe_frame(radio_holder)>>
         \o radio_frames(subframe_after(radio_holder), n - 1)

\* radio_control: what it builds. It reads self.helptext.splitlines() first,
\* which raises for a help text of None; a bullet with no word after the dash
\* raises in line.split()[1].
radio_control(help, choices, cols) ==
    IF help = None
    THEN [raised |-> "AttributeError", helpset |-> FALSE, tooltips |-> <<>>,
          radios |-> <<>>]
    ELSE LET all_help == splitlines(help.val)
             matched == [i \in DOMAIN choices |->
                            in_helpitems(all_help, lower(choices[i]))]
             frames == radio_frames(AutoFillContainer(<<"ctl">>, cols), Len(choices))
             tips == [i \in DOMAIN choices |->
                        IF matched[i]
                        THEN <<Tooltip(<<"radio", ToString(i - 1)>>,
                                       Str(radio_helptext(all_help, choices[i])), 400)>>
                        ELSE <<>>]
         IN  IF \E i \in DOMAIN all_help :
                   is_bullet(all_help[i]) /\ Len(split_words(all_help[i])) < 2
             THEN [raised |-> "IndexError", helpset |-> FALSE, tooltips |-> <<>>,
                   radios |-> <<>>]
             ELSE [raised   |-> "none",
                   helpset  |-> \E i \in DOMAIN choices : matched[i],
                   tooltips |-> join(<<>>, tips),
                   radios   |-> [i \in DOMAIN choices |->
                                    [widget |-> <<"radio", ToString(i - 1)>>,
                                     parent |-> frames[i],
                                     text   |-> title(choices[i]),
                                     value  |-> choices[i]]]]

\* control_frame: a frame in the parent, for the label and the control
control_frame(parent) == Append(parent, "frame")

\* build_one_control: the control of the selected kind, then the tooltip on
\* the control unless it is a check button, has no help or has its help set
build_one_control(control, a, help) ==
    LET built ==
          IF control = "Scale"
          THEN [raised |-> IF a.min_max = None THEN "TypeError" ELSE "none",
                helpset |-> FALSE, tooltips |-> <<>>, radios |-> <<>>,
                chkbtns |-> a.checkbuttons_frame, parent |-> control_frame(a.parent),
                filebrowser |-> None]
          ELSE IF control = "Radiobutton"
          THEN LET r == radio_control(help, a.choices.val, a.radio_columns)
               IN  [raised |-> r.raised, helpset |-> r.helpset,
                    tooltips |-> r.tooltips, radios |-> r.radios,
                    chkbtns |-> a.checkbuttons_frame,
                    parent |-> control_frame(a.parent), filebrowser |-> None]
          ELSE IF control = "Checkbutton"
          THEN [raised |-> "none", helpset |-> FALSE,
                tooltips |-> <<Tooltip(<<"ctl">>, help, 200)>>, radios |-> <<>>,
                chkbtns |-> subframe_after(a.checkbuttons_frame),
                parent |-> subframe_frame(a.checkbuttons_frame),
                filebrowser |-> None]
          ELSE [raised |-> "none", helpset |-> FALSE, tooltips |-> <<>>,
                radios |-> <<>>, chkbtns |-> a.checkbuttons_frame,
                parent |-> control_frame(a.parent),
                filebrowser |-> IF a.sysbrowser # None
                                THEN FileBrowser(a.sysbrowser) ELSE None]
    IN  IF built.raised = "none" /\ control # "Checkbutton"
           /\ help # None /\ ~built.helpset
        THEN [built EXCEPT !.tooltips = Append(@, Tooltip(<<"ctl">>, help, 720))]
        ELSE built

\* ControlBuilder.__init__: the object's fields, the tooltips it attached
\* (label first), the frame its control was put in (ctl_parent) and the
\* exception it ended with; when set_tk_var raises nothing is built
ControlBuilder(a) ==
    LET help == format_helptext(a.title, a.helptext)
        control == set_control(a.dtype, a.choices, a.is_radio)
        label == IF control \notin {"Checkbutton", "Radiobutton"} /\ help # None
                 THEN <<Tooltip(<<"lbl">>, help, 720)>> ELSE <<>>
        tk_var == set_tk_var(a.dtype, a.default, a.selected_value, a.blank_nones)
        one == IF tk_var.raised = "none" THEN build_one_control(control, a, help)
               ELSE [raised |-> tk_var.raised, helpset |-> FALSE, tooltips |-> <<>>,
                     radios |-> <<>>, chkbtns |-> a.checkbuttons_frame,
                     parent |-> control_frame(a.parent), filebrowser |-> None]
    IN  [state       |-> IF one.raised = "none" THEN "built" ELSE "raised",
         raised      |-> one.raised,
         title       |-> a.title,
         frame       |-> control_frame(a.parent),
         helptext    |-> help,
         helpset     |-> one.helpset,
         filebrowser |-> one.filebrowser,
         control     |-> control,
         tk_var      |-> tk_var,
         chkbtns     |-> one.chkbtns,
         ctl_parent  |-> one.parent,
         radios      |-> one.radios,
         tooltips    |-> IF tk_var.raised = "none" THEN label \o one.tooltips
                         ELSE <<>>]

\* A ControlBuilder(...) call whose constructor has not run yet
NotBuilt == [state |-> "new"]

\* No ControlBuilder(...) call
NoBuilder == [state |-> "idle"]

\* ------------------------------------------------------ class ControlPanel

\* get_group_frame: self.group_frames.get(group, None), by position (0: none)
group_index(frames, group) ==
    IF \E g \in DOMAIN frames : frames[g].group = group
    THEN CHOOSE g \in DOMAIN frames : frames[g].group = group
    ELSE 0

\* checkbuttons_frame: a "chkbuttons" frame in the group frame, not packed,
\* holding an AutoFillContainer of radio_columns columns
checkbuttons_frame(frame, cols) == AutoFillContainer(Append(frame, "chkbuttons"), cols)

group_key_as_given(group) == group

\* get_group_frame: group = group.lower()
group_key(group) == lower(group)

\* get_group_frame: the new group's entry, in the frame the panel's container
\* hands out; a plain frame for "_master", else a label frame whose text is
\* group.title()
new_group_frame(group, opts_frame, cols) ==
    LET frame == opts_frame \o <<"/">> \o group
    IN  [group      |-> group,
         frame      |-> frame,
         class      |-> IF group = S("_master") THEN "Frame" ELSE "LabelFrame",
         text       |-> IF group = S("_master") THEN None ELSE Str(title(group)),
         chkbtns    |-> checkbuttons_frame(frame, cols),
         chk_packed |-> FALSE]

\* get_group_frame: the groups and the panel's container after the call
get_group_frame(frames, holderOf, group, cols) ==
    LET key == group_key(group)
    IN  IF group_index(frames, key) = 0
        THEN [group_frames |-> Append(frames,
                                  new_group_frame(key, subframe_frame(holderOf), cols)),
              optsframe    |-> subframe_after(holderOf),
              index        |-> Len(frames) + 1]
        ELSE [group_frames |-> frames,
              optsframe    |-> holderOf,
              index        |-> group_index(frames, key)]

\* build_panel: group = "_master" if val["group"] is None else val["group"]
group_of(val) == IF val.group = None THEN S("_master") ELSE val.group.val

\* build_panel: the ControlBuilder arguments of one option
builder_args(parent, key, val, chkbtns, radio_cols, blank_nones) ==
    [parent             |-> parent,
     title              |-> key,
     dtype              |-> val.type,
     default            |-> val.default,
     selected_value     |-> val.value,
     choices            |-> val.choices,
     is_radio           |-> val.gui_radio,
     rounding           |-> val.rounding,
     min_max            |-> val.min_max,
     helptext           |-> val.helptext,
     sysbrowser         |-> val.sysbrowser,
     checkbuttons_frame |-> chkbtns,
     radio_columns      |-> radio_cols,
     blank_nones        |-> blank_nones]

\* build_panel: if group_frame["chkbtns"].items > 0: ...parent.pack(...)
show_chkbtns(chkbtns) == items(chkbtns) > 0

loop_break(p, n, here, after) == <<after, 1>>

\* the end of a loop body (or `continue`) at entry p of n: the next entry of
\* the loop at position `here`, or the first entry of what follows
loop_continue(p, n, here, after) ==
    IF p < n THEN <<here, p + 1>> ELSE <<after, 1>>

\* build_panel: if key == "helptext": continue
skip(key) == key = S("helptext")

\* set_context_action_option: the comprehension reads item["opts"][0] and
\* item["selected"] of every value of the mapping, and a "helptext" value is
\* a string
context_actions_raise(opts) ==
    IF \E i \in DOMAIN opts : opts[i].val.kind = "str" THEN "TypeError" ELSE "none"

\* set_context_action_option: actions[self.action_option], the variable of
\* the last option whose first flag is the name (0: a KeyError)
context_action(opts, sel, name) ==
    IF \E i \in DOMAIN opts : Str(opts[i].val.opts[1]) = name
    THEN sel[CHOOSE i \in DOMAIN opts :
                /\ Str(opts[i].val.opts[1]) = name
                /\ \A j \in DOMAIN opts : Str(opts[j].val.opts[1]) = name => j <= i]
    ELSE 0

\* ------------------------------------------------------- idle components

\* Each specification drives one component; the others stay as constructed.
IdleContainer ==
    /\ holder = AutoFillContainer(<<"parent">>, 1)
    /\ calls = <<>>
    /\ reads = 0
    /\ lastRead = NoFrame
    /\ readAt = 0

IdleSlider ==
    /\ d_type = "int"
    /\ round_to = 1
    /\ min_max = <<0, 0>>
    /\ value = 0
    /\ var = [num |-> 0, den |-> 1]
    /\ moved = FALSE

IdleBrowser ==
    /\ browser = <<>>
    /\ action_option = [resolved |-> FALSE, name |-> None]
    /\ command = None
    /\ destination = None
    /\ action_value = <<>>
    /\ filepath = <<>>
    /\ retfile = None
    /\ lastAsk = "none"
    /\ handler = handler_call("none", None, None, None)
    /\ raised = "none"

IdleBuilder ==
    /\ args = None
    /\ ctl = NoBuilder

IdlePanel ==
    /\ options = <<>>
    /\ selected = <<>>
    /\ gui_option = <<>>
    /\ radio_columns = 1
    /\ optsframe = AutoFillContainer(<<"optsframe">>, 1)
    /\ group_frames = <<>>
    /\ tk_vars = <<>>
    /\ builders = <<>>
    /\ pc = "done"
    /\ pos = 1
    /\ error = "none"
    /\ clicks = <<>>
    /\ handled = None

\* ------------------------------------------------ SpecContainer: actions

InitContainer ==
    /\ \E cols \in 1..MaxColumns : holder = AutoFillContainer(<<"parent">>, cols)
    /\ calls = <<>>
    /\ reads = 0
    /\ lastRead = NoFrame
    /\ readAt = 0
    /\ IdleSlider
    /\ IdleBrowser
    /\ IdleBuilder
    /\ IdlePanel

\* A caller reads the `subframe` property.
Subframe ==
    /\ Len(calls) < MaxCalls
    /\ calls' = Append(calls, subframe_frame(holder))
    /\ holder' = subframe_after(holder)
    /\ UNCHANGED <<reads, lastRead, readAt, sliderVars, browserVars, builderVars, panelVars>>

\* A caller reads the `last_subframe` property.
LastSubframe ==
    /\ reads < MaxReads
    /\ lastRead' = last_subframe(holder)
    /\ readAt' = Len(calls)
    /\ reads' = reads + 1
    /\ UNCHANGED <<holder, calls, sliderVars, browserVars, builderVars, panelVars>>

NextContainer == Subframe \/ LastSubframe

SpecContainer == InitContainer /\ [][NextContainer]_vars

\* The frame of column k (from 0) of a container on `parent` with `cols`
\* columns: the parent itself for a single column, else the k-th sub-frame.
ColumnFrame(parent, cols, k) ==
    IF cols = 1 THEN parent ELSE Append(parent, ToString(k))

\* C1: the n-th `subframe` call (n from 0) returns column n mod C, so the
\* first call returns column 0, the first C calls return every column exactly
\* once in index order and call C+1 returns column 0 again; the cursor stays
\* in 0..C-1.
C1_RoundRobin ==
    LET C == holder.columns IN
    /\ holder._idx \in 0..(C - 1)
    /\ holder._idx = Len(calls) % C
    /\ \A n \in 1..Len(calls) :
          calls[n] = ColumnFrame(holder.parent, C, (n - 1) % C)
    /\ Len(calls) >= C =>
          \A k \in 0..(C - 1) :
             Cardinality({n \in 1..C : calls[n] = ColumnFrame(holder.parent, C, k)}) = 1
    /\ Len(calls) > C => calls[C + 1] = calls[1]

C1_Witness ==
    /\ holder.columns = 3
    /\ Len(calls) = 4
    /\ calls[4] = <<"parent", "0">>
    /\ calls[3] = <<"parent", "2">>

\* C10: a `last_subframe` read returns column columns-1 and changes neither
\* the cursor nor anything else of the container, and every `subframe` call
\* returns the column its own call count selects, however many reads were
\* made before it.
C10_LastSubframeFrame ==
    [][/\ reads' # reads =>
            /\ lastRead' = ColumnFrame(holder.parent, holder.columns, holder.columns - 1)
            /\ holder' = holder
            /\ calls' = calls
       /\ calls' # calls =>
            /\ Len(calls') = Len(calls) + 1
            /\ calls'[Len(calls')] =
                  ColumnFrame(holder.parent, holder.columns, Len(calls) % holder.columns)]_vars

C10_Witness ==
    /\ holder.columns = 3
    /\ reads = 2
    /\ readAt = 1
    /\ lastRead = <<"parent", "2">>
    /\ Len(calls) = 3
    /\ calls[2] = <<"parent", "1">>
    /\ calls[3] = <<"parent", "2">>

\* C11: a container of one column has the parent itself as its only column;
\* a container of C > 1 columns has C pairwise distinct sub-frames, none of
\* them the parent; in both cases `items` is C, and neither `items` nor the
\* columns change with any later read of `subframe` or `last_subframe`.
C11_Subframes ==
    /\ [](LET C == holder.columns IN
            /\ holder._items = C
            /\ Len(holder.subframes) = C
            /\ C = 1 => holder.subframes = <<holder.parent>>
            /\ C > 1 =>
                  /\ \A k \in 1..C : holder.subframes[k] # holder.parent
                  /\ \A k, l \in 1..C :
                        k # l => holder.subframes[k] # holder.subframes[l])
    /\ [][/\ holder'._items = holder._items
           /\ holder'.columns = holder.columns
           /\ holder'.subframes = holder.subframes
           /\ holder'.parent = holder.parent]_vars

C11_Witness ==
    /\ holder.columns = 1
    /\ holder.subframes = <<<<"parent">>>>
    /\ holder._items = 1
    /\ Len(calls) = 2
    /\ calls[2] = <<"parent">>
    /\ reads = 1

\* --------------------------------------------------- SpecSlider: actions

\* slider_control: a slider over min_max whose command is set_slider_rounding
\* with the option's data type and rounding; the variable starts at the
\* lower bound.
InitSlider ==
    /\ d_type \in {"int", "float"}
    /\ min_max \in {mm \in (-MaxAbs..MaxAbs) \X (-MaxAbs..MaxAbs) : mm[1] <= mm[2]}
    /\ round_to \in IF d_type = "int" THEN 1..MaxStep ELSE 0..MaxDigits
    /\ value = Scale * min_max[1]
    /\ var = [num |-> min_max[1], den |-> 1]
    /\ moved = FALSE
    /\ IdleContainer
    /\ IdleBrowser
    /\ IdleBuilder
    /\ IdlePanel

\* The user drags the slider: the toolkit calls the command with the raw
\* value, which lies between the slider's bounds.
SliderMoved ==
    \E raw \in (Scale * min_max[1])..(Scale * min_max[2]) :
        /\ value' = raw
        /\ var' = set_slider_rounding(raw, d_type, round_to, min_max)
        /\ moved' = TRUE
        /\ UNCHANGED <<d_type, round_to, min_max, containerVars, browserVars, builderVars, panelVars>>

NextSlider == SliderMoved

SpecSlider == InitSlider /\ [][NextSlider]_vars

\* The lattice {min, min+step, min+2*step, ...} up to the first point at or
\* above max, which is as far as a value within the bounds can be nearest to.
Lattice == {min_max[1] + k * round_to : k \in 0..(2 * MaxAbs + 1)}

\* C3: for an integer slider the value written is the lattice point nearest
\* to the raw value, and of two equally near points the lower one.
C3_NearestLatticePoint ==
    (moved /\ d_type = "int") =>
        /\ var.den = 1
        /\ var.num \in Lattice
        /\ \A p \in Lattice :
              /\ Abs(Scale * p - value) >= Abs(Scale * var.num - value)
              /\ Abs(Scale * p - value) = Abs(Scale * var.num - value) => p >= var.num

\* C15: for an integer slider the value written after a move to a raw value
\* within the bounds lies within the bounds too.
C15_WithinRange ==
    (moved /\ d_type = "int") =>
        /\ var.den = 1
        /\ min_max[1] <= var.num
        /\ var.num <= min_max[2]

\* -------------------------------------------------- SpecBrowser: actions

\* The sysbrowser specs: one dialog kind, or several, each a button.
BrowserLists ==
    {<<"folder">>, <<"load">>, <<"load_multi">>, <<"save">>, <<"nothing">>,
     <<"context">>, <<"context", "folder">>, <<"load_multi", "save">>}

\* A FileBrowser as it stands once its control is built: a spec that is
\* exactly ["context"] has had its action option resolved to that option's
\* variable by a panel, or was built without a panel and still holds the name.
InitBrowser ==
    /\ browser \in BrowserLists
    /\ IF HasButton("context")
       THEN /\ command \in {None, Str(S("cmd"))}
            /\ destination \in {None, Str(S("dst"))}
            /\ action_option \in
                  IF browser = <<"context">>
                  THEN {[resolved |-> TRUE, name |-> Str(S("action"))],
                        [resolved |-> FALSE, name |-> Str(S("action"))]}
                  ELSE {[resolved |-> FALSE, name |-> Str(S("action"))]}
       ELSE /\ command = None
            /\ destination = None
            /\ action_option = [resolved |-> FALSE, name |-> None]
    /\ action_value \in IF action_option.resolved THEN Actions ELSE {<<>>}
    /\ filepath \in {<<>>, S("c")}
    /\ retfile = None
    /\ lastAsk = "none"
    /\ handler = handler_call("none", None, None, None)
    /\ raised = "none"
    /\ IdleContainer
    /\ IdleSlider
    /\ IdleBuilder
    /\ IdlePanel

Fixed == <<browser, action_option, command, destination>>

AskFolder ==
    /\ HasButton("folder")
    /\ \E dirname \in OnePath :
          /\ retfile' = dirname
          /\ filepath' = ask_folder(filepath, dirname)
    /\ handler' = handler_call("dir", None, None, None)
    /\ lastAsk' = "folder"
    /\ raised' = "none"
    /\ UNCHANGED <<Fixed, action_value, containerVars, sliderVars, builderVars, panelVars>>

AskLoad ==
    /\ HasButton("load")
    /\ \E filename \in OnePath :
          /\ retfile' = filename
          /\ filepath' = ask_load(filepath, filename)
    /\ handler' = handler_call("filename", None, None, None)
    /\ lastAsk' = "load"
    /\ raised' = "none"
    /\ UNCHANGED <<Fixed, action_value, containerVars, sliderVars, builderVars, panelVars>>

AskLoadMulti ==
    /\ HasButton("load_multi")
    /\ \E filenames \in SomePaths :
          /\ retfile' = filenames
          /\ filepath' = ask_load_multi(filepath, filenames)
    /\ handler' = handler_call("filename_multi", None, None, None)
    /\ lastAsk' = "load_multi"
    /\ raised' = "none"
    /\ UNCHANGED <<Fixed, action_value, containerVars, sliderVars, builderVars, panelVars>>

AskSave ==
    /\ HasButton("save")
    /\ \E filename \in OnePath :
          /\ retfile' = filename
          /\ filepath' = ask_save(filepath, filename)
    /\ handler' = handler_call("savefilename", None, None, None)
    /\ lastAsk' = "save"
    /\ raised' = "none"
    /\ UNCHANGED <<Fixed, action_value, containerVars, sliderVars, builderVars, panelVars>>

AskNothing ==
    /\ HasButton("nothing")
    /\ filepath' = ask_nothing(filepath)
    /\ retfile' = None
    /\ handler' = handler_call("none", None, None, None)
    /\ lastAsk' = "nothing"
    /\ raised' = "none"
    /\ UNCHANGED <<Fixed, action_value, containerVars, sliderVars, builderVars, panelVars>>

\* ask_context reads self.action_option.get() first: an action option that was
\* never resolved is still a name (or None) and the read raises.
AskContext ==
    /\ HasButton("context")
    /\ lastAsk' = "context"
    /\ IF action_option.resolved
       THEN /\ handler' = handler_call("context", command, Str(action_value),
                                       destination)
            /\ \E filename \in OnePath :
                  /\ retfile' = filename
                  /\ filepath' = ask_context(filepath, filename)
            /\ raised' = "none"
       ELSE /\ raised' = "AttributeError"
            /\ retfile' = None
            /\ handler' = handler_call("none", None, None, None)
            /\ UNCHANGED filepath
    /\ UNCHANGED <<Fixed, action_value, containerVars, sliderVars, builderVars, panelVars>>

\* The user picks another value of the action option.
SetAction ==
    /\ action_option.resolved
    /\ \E a \in Actions : a # action_value /\ action_value' = a
    /\ lastAsk' = "none"
    /\ retfile' = None
    /\ UNCHANGED <<Fixed, filepath, handler, raised, containerVars, sliderVars, builderVars, panelVars>>

\* The user types into the entry the variable is bound to.
UserTypes ==
    /\ \E text \in {<<>>, S("c")} : text # filepath /\ filepath' = text
    /\ lastAsk' = "none"
    /\ retfile' = None
    /\ UNCHANGED <<Fixed, action_value, handler, raised, containerVars, sliderVars, builderVars, panelVars>>

NextBrowser ==
    \/ AskFolder
    \/ AskLoad
    \/ AskLoadMulti
    \/ AskSave
    \/ AskNothing
    \/ AskContext
    \/ SetAction
    \/ UserTypes

SpecBrowser == InitBrowser /\ [][NextBrowser]_vars

Dialogs == {"folder", "load", "load_multi", "save", "context"}

\* C4 as stated: a click whose dialog returns nothing leaves the variable as
\* it was, a click whose dialog returns a result overwrites the variable with
\* that result, and ask_nothing never changes the variable.
C4_AsStated ==
    [][/\ (lastAsk' \in Dialogs /\ raised' = "none") =>
            IF Truthy(retfile') THEN Str(filepath') = retfile'
            ELSE filepath' = filepath
       /\ lastAsk' = "nothing" => filepath' = filepath]_vars

\* The text between positions i and j of s
Slice(s, i, j) == SubSeq(s, i, j)

\* s is n quoted paths separated by single spaces: paths[1] in quotes first,
\* then for each further path a space and the path in quotes.
RECURSIVE IsQuotedList(_, _)
IsQuotedList(s, paths) ==
    LET p == paths[1]
        n == Len(p) + 2
    IN  /\ Len(s) >= n
        /\ s[1] = "\""
        /\ Slice(s, 2, n - 1) = p
        /\ s[n] = "\""
        /\ IF Len(paths) = 1 THEN Len(s) = n
           ELSE /\ Len(s) > n + 1
                /\ s[n + 1] = " "
                /\ IsQuotedList(Slice(s, n + 2, Len(s)), Tail(paths))

\* C4 (amended): a click whose dialog returns nothing leaves the variable as
\* it was; a click of folder, load, save or context whose dialog returns a
\* path overwrites the variable with that path; a click of load_multi whose
\* dialog returns paths overwrites the variable with those paths, each in
\* double quotes, joined by single spaces; ask_nothing never changes the
\* variable.
C4_DialogWriteBack ==
    [][/\ (lastAsk' \in Dialogs /\ raised' = "none") =>
            IF ~Truthy(retfile') THEN filepath' = filepath
            ELSE IF lastAsk' = "load_multi"
                 THEN IsQuotedList(filepath', retfile'.val)
                 ELSE Str(filepath') = retfile'
       /\ lastAsk' = "nothing" => filepath' = filepath]_vars

C4_Witness ==
    /\ lastAsk = "save"
    /\ retfile = Str(<<>>)
    /\ filepath = S("c")
    /\ raised = "none"

\* C8: after a multi-file dialog returned a non-empty list of paths the
\* variable holds the paths in their order, each wrapped in double quotes,
\* joined by a single space: as many quoted segments as paths.
C8_QuotedJoined ==
    (lastAsk = "load_multi" /\ Truthy(retfile)) =>
        /\ IsQuotedList(filepath, retfile.val)
        /\ Cardinality({i \in DOMAIN filepath : filepath[i] = "\""})
              = 2 * Len(retfile.val)

C8_Witness ==
    /\ lastAsk = "load_multi"
    /\ retfile = Tuple(<<S("a b"), S("c")>>)
    /\ filepath = S("\"a b\" \"c\"")

\* -------------------------------------------------- SpecBuilder: actions

HelpTexts ==
    {None,
     Str(S("pick one. or not")),
     Str(S("speed.\n\tfast: quick")),
     Str(S("R|speed.\nL|fast: quick. dirty\nL|slow: best")),
     Str(S("R|speed.\nL|other: thing")),
     Str(S("R|speed.\nL|")),
     Str(S("R|first.\nL|second item"))}

ChoiceLists == {None, Tuple(<<>>), Tuple(<<S("Fast"), S("slow"), S("mid")>>)}

SysBrowsers ==
    {None,
     [browser |-> <<"folder">>, action_option |-> None, command |-> None,
      destination |-> None]}

\* The caller's arguments: any data type, with or without choices, help,
\* default and selected value; the shared check button container is fresh.
InitBuilder ==
    /\ args \in [parent           : {<<"parent">>},
                 title            : {S("mode")},
                 dtype            : {"bool", "int", "float", "str"},
                 default          : {None, PyInt(0)},
                 selected_value   : {None, PyInt(1)},
                 choices          : ChoiceLists,
                 is_radio         : BOOLEAN,
                 rounding         : {1},
                 min_max          : {Tuple(<<0, 3>>)},
                 sysbrowser       : SysBrowsers,
                 helptext         : HelpTexts,
                 radio_columns    : 1..MaxRadioColumns,
                 checkbuttons_frame :
                     {AutoFillContainer(<<"chkbuttons">>, c) : c \in 1..MaxRadioColumns},
                 blank_nones      : BOOLEAN]
    /\ ctl = NotBuilt
    /\ IdleContainer
    /\ IdleSlider
    /\ IdleBrowser
    /\ IdlePanel

\* ControlBuilder(...) runs.
Construct ==
    /\ ctl.state = "new"
    /\ ctl' = ControlBuilder(args)
    /\ UNCHANGED <<args, containerVars, sliderVars, browserVars, panelVars>>

NextBuilder == Construct

SpecBuilder == InitBuilder /\ [][NextBuilder]_vars

HasChoices == args.choices # None /\ Len(args.choices.val) > 0

\* C7: the control kind is decided by the first rule that matches: choices
\* with the radio flag give radio buttons, choices without it a combo box,
\* else a boolean type a check button, else an integer or float type a
\* slider, else a text entry; every combination selects exactly one kind.
C7_ControlKind ==
    ctl.state # "new" =>
        /\ (HasChoices /\ args.is_radio) <=> ctl.control = "Radiobutton"
        /\ (HasChoices /\ ~args.is_radio) <=> ctl.control = "Combobox"
        /\ (~HasChoices /\ args.dtype = "bool") <=> ctl.control = "Checkbutton"
        /\ (~HasChoices /\ args.dtype \in {"int", "float"}) <=> ctl.control = "Scale"
        /\ (~HasChoices /\ args.dtype \notin {"bool", "int", "float"})
              <=> ctl.control = "Entry"
        /\ ctl.control \in {"Radiobutton", "Combobox", "Checkbutton", "Scale", "Entry"}

C7_Witness ==
    /\ ctl.state = "built"
    /\ args.dtype = "bool"
    /\ HasChoices
    /\ ~args.is_radio
    /\ ctl.control = "Combobox"

\* C12: once the ControlBuilder is constructed its bound variable is a
\* BooleanVar for bool, an IntVar for int, a DoubleVar for float and a
\* StringVar for any other type, and it was set to the selected value if
\* there is one, else to the default if there is one, else, when blank_nones
\* is set, to the empty string.
C12_InitialValue ==
    ctl.state # "new" =>
        /\ ctl.tk_var.class =
              (IF args.dtype = "bool" THEN "BooleanVar"
               ELSE IF args.dtype = "int" THEN "IntVar"
               ELSE IF args.dtype = "float" THEN "DoubleVar"
               ELSE "StringVar")
        /\ args.selected_value # None =>
              ctl.tk_var.raised = "none" /\ ctl.tk_var.val = args.selected_value
        /\ (args.selected_value = None /\ args.default # None) =>
              ctl.tk_var.raised = "none" /\ ctl.tk_var.val = args.default
        /\ (args.selected_value = None /\ args.default = None /\ args.blank_nones) =>
              ctl.tk_var.raised = "none" /\ ctl.tk_var.val = Str(<<>>)

\* The formatted help text without the "<title> - " in front
Formatted == drop(ctl.helptext.val, Len(args.title) + 3)

RECURSIVE lstrip(_)
lstrip(s) == IF s # <<>> /\ s[1] = " " THEN lstrip(Tail(s)) ELSE s

\* The lines of a text that are not empty, without their leading blanks
NonEmptyLines(s) ==
    LET lines == splitlines(s)
    IN  SelectSeq([i \in DOMAIN lines |-> lstrip(lines[i])], LAMBDA l : l # <<>>)

Example == Str(S("R|first.\nL|second item"))

\* C13 as stated: the help text "R|first.\nL|second item" is formatted to
\* the intro line "First." followed by the bullet "- Second item.".
C13_AsStated ==
    (ctl.state # "new" /\ args.helptext = Example) =>
        NonEmptyLines(Formatted) = <<S("First."), S("- Second item.")>>

\* The "\nL|" markers of an R| help text
Markers(raw) == {i \in 1..Len(raw) : startswith(drop(raw, i - 1), S("\nL|"))}

\* C13: the help text "R|first.\nL|second item" is formatted to the intro
\* line "First.", an empty line and the bullet " - second item", behind the
\* title; and every help text that begins with "R|" is formatted to a text
\* that begins with an upper-case letter where the text behind the marker
\* begins with a letter, that has as many " - " bullet lines as the input has
\* "\nL|" markers, and in which every line but the first follows an empty
\* line.
C13_Reflow ==
    /\ (ctl.state # "new" /\ args.helptext = Example) =>
          /\ ctl.helptext = Str(args.title \o S(" - First.\n\n - second item"))
          /\ splitlines(Formatted) = <<S("First."), <<>>, S(" - second item")>>
    /\ (ctl.state # "new" /\ args.helptext # None
           /\ startswith(args.helptext.val, S("R|"))) =>
          LET raw == args.helptext.val
              lines == splitlines(Formatted)
          IN  /\ startswith(ctl.helptext.val, args.title \o S(" - "))
              /\ InSeq(raw[3], Lowers) => Formatted[1] = upper_char(raw[3])
              /\ Cardinality({i \in DOMAIN lines : startswith(lines[i], S(" - "))})
                    = Cardinality(Markers(raw))
              /\ \A i \in DOMAIN lines : (i % 2 = 0) <=> (lines[i] = <<>>)

C13_Witness ==
    /\ ctl.state = "built"
    /\ args.helptext = Example
    /\ args.title = S("mode")
    /\ ctl.helptext = Str(S("mode - First.\n\n - second item"))
    /\ ctl.control = "Entry"
    /\ Len(ctl.tooltips) = 2

\* The normalized first words of the bullets of the formatted help text
BulletKeys ==
    IF ctl.helptext = None THEN {}
    ELSE LET lines == splitlines(ctl.helptext.val)
         IN  {strip_non_word(lower(split_words(lines[i])[2])) :
                 i \in {k \in DOMAIN lines :
                          /\ startswith(lines[k], S(" - "))
                          /\ Len(split_words(lines[k])) >= 2}}

MatchedChoices ==
    {i \in DOMAIN args.choices.val : lower(args.choices.val[i]) \in BulletKeys}

TooltipsOn(widget) == {i \in DOMAIN ctl.tooltips : ctl.tooltips[i].widget = widget}

\* C9: for a radio option every choice that matches a bullet has a tooltip
\* of its own on its radio button and then the group has none; when no choice
\* matches, the group has exactly one tooltip and no radio button has one.
C9_RadioTooltips ==
    (ctl.state # "new" /\ ctl.control = "Radiobutton") =>
        /\ \A i \in MatchedChoices :
              Cardinality(TooltipsOn(<<"radio", ToString(i - 1)>>)) = 1
        /\ \A i \in DOMAIN args.choices.val \ MatchedChoices :
              TooltipsOn(<<"radio", ToString(i - 1)>>) = {}
        /\ MatchedChoices # {} => TooltipsOn(<<"ctl">>) = {}
        /\ MatchedChoices = {} => Cardinality(TooltipsOn(<<"ctl">>)) = 1

\* --------------------------------------------------------- Spec: actions

\* An option descriptor of the mapping
Option(type, group, sysbrowser, choices, gui_radio) ==
    [kind       |-> "option",
     type       |-> type,
     default    |-> IF type = "bool" THEN Bool(FALSE) ELSE None,
     value      |-> None,
     choices    |-> choices,
     gui_radio  |-> gui_radio,
     rounding   |-> None,
     min_max    |-> None,
     helptext   |-> None,
     group      |-> group,
     sysbrowser |-> sysbrowser]

ContextBrowser ==
    [browser |-> <<"context">>, action_option |-> Str(S("-1")),
     command |-> Str(S("cmd")), destination |-> Str(S("dst"))]

FolderBrowser ==
    [browser |-> <<"folder">>, action_option |-> None, command |-> None,
     destination |-> None]

\* The values an entry of the mapping takes: text entries and check buttons
\* in the default group and in named groups of several spellings, entries
\* with file browsers, a radio group without help text, and the text of the
\* "helptext" pseudo-key.
Values ==
    {Option("str", g, None, None, FALSE) :
        g \in {None, Str(S("Output")), Str(S("OUTPUT")), Str(S("face"))}}
    \cup {Option("bool", g, None, None, FALSE) : g \in {None, Str(S("output"))}}
    \cup {Option("str", None, FolderBrowser, None, FALSE),
          Option("str", None, ContextBrowser, None, FALSE),
          Option("str", Str(S("face")), None, Tuple(<<S("a"), S("b")>>), TRUE),
          Str(S("about"))}

\* Entry i of the mapping: the "helptext" key for the text, else the i-th
\* option key with its command line flags
Entry(i, val) ==
    IF val.kind = "str" THEN [key |-> S("helptext"), val |-> val]
    ELSE [key |-> S("opt") \o <<ToString(i)>>,
          val |-> [opts |-> <<S("-") \o <<ToString(i)>>>>] @@ val]

\* The mappings: a key occurs once, so at most one "helptext"; at most one
\* entry has a context file browser
Mappings ==
    UNION {{[i \in 1..n |-> Entry(i, f[i])] :
              f \in {g \in [1..n -> Values] :
                       /\ Cardinality({i \in 1..n : g[i].kind = "str"}) <= 1
                       /\ Cardinality({i \in 1..n :
                              g[i] = Option("str", None, ContextBrowser, None, FALSE)})
                             <= 1}} :
           n \in 1..MaxOptions}

\* ControlPanel.__init__ up to the call of build_panel: no group yet, the
\* panel's container built; the default layout (one column, radio_columns 4)
\* or two columns with single-column check button regions.
Init ==
    /\ options \in Mappings
    /\ selected = [i \in DOMAIN options |-> 0]
    /\ gui_option = [i \in DOMAIN options |-> None]
    /\ \E layout \in {<<1, 4>>, <<2, 1>>} :
          /\ optsframe = AutoFillContainer(<<"optsframe">>, layout[1])
          /\ radio_columns = layout[2]
    /\ group_frames = <<>>
    /\ tk_vars = <<>>
    /\ builders = <<>>
    /\ pc = "build"
    /\ pos = 1
    /\ error = "none"
    /\ clicks = <<>>
    /\ handled = None
    /\ IdleContainer
    /\ IdleSlider
    /\ IdleBrowser
    /\ IdleBuilder

\* The loop position after entry pos: the next entry, or the next loop
AfterEntry(here, after) == loop_continue(pos, Len(options), here, after)

Others == <<containerVars, sliderVars, browserVars, builderVars, clicks, handled>>

\* build_panel, first loop, the "helptext" key: continue
SkipHelptext ==
    /\ pc = "build"
    /\ skip(options[pos].key)
    /\ pc' = AfterEntry("build", "context")[1]
    /\ pos' = AfterEntry("build", "context")[2]
    /\ UNCHANGED <<options, selected, gui_option, radio_columns, optsframe,
                   group_frames, tk_vars, builders, error, Others>>

\* build_panel, first loop, one option: its group frame is looked up or
\* created and the arguments of its ControlBuilder are put together.
GetGroupFrame ==
    /\ pc = "build"
    /\ ~skip(options[pos].key)
    /\ LET got == get_group_frame(group_frames, optsframe,
                                  group_of(options[pos].val), radio_columns)
       IN  /\ optsframe' = got.optsframe
           /\ group_frames' = got.group_frames
           /\ args' = builder_args(got.group_frames[got.index].frame,
                                   options[pos].key, options[pos].val,
                                   got.group_frames[got.index].chkbtns,
                                   radio_columns, TRUE)
    /\ ctl' = NotBuilt
    /\ pc' = "builder"
    /\ UNCHANGED <<options, selected, gui_option, radio_columns, tk_vars,
                   builders, pos, error, clicks, handled,
                   containerVars, sliderVars, browserVars>>

\* build_panel, first loop, after ControlBuilder(...): an exception ends the
\* build; else the check buttons the builder routed are in the group's
\* container, the group's check button region is packed if the container
\* reports items, and the variable and the builder are attached to the
\* descriptor.
AttachOption ==
    /\ pc = "builder"
    /\ ctl.state # "new"
    /\ builders' = Append(builders, options[pos].key)
    /\ IF ctl.state = "raised"
       THEN /\ pc' = "raised"
            /\ error' = ctl.raised
            /\ UNCHANGED <<selected, gui_option, tk_vars, pos, group_frames>>
       ELSE /\ group_frames' =
                  [group_frames EXCEPT
                      ![group_index(group_frames,
                                    group_key(group_of(options[pos].val)))] =
                          [@ EXCEPT !.chkbtns = ctl.chkbtns,
                                    !.chk_packed = @ \/ show_chkbtns(ctl.chkbtns)]]
            /\ tk_vars' = Append(tk_vars, ctl.tk_var)
            /\ selected' = [selected EXCEPT ![pos] = Len(tk_vars) + 1]
            /\ gui_option' = [gui_option EXCEPT ![pos] = ctl]
            /\ pc' = AfterEntry("build", "context")[1]
            /\ pos' = AfterEntry("build", "context")[2]
            /\ UNCHANGED error
    /\ UNCHANGED <<options, radio_columns, optsframe, Others>>

\* build_panel, second loop, the "helptext" key or an option without a
\* context file browser: nothing changes
PassContext ==
    /\ pc = "context"
    /\ IF skip(options[pos].key) THEN TRUE
       ELSE IF gui_option[pos].filebrowser = None THEN TRUE
       ELSE gui_option[pos].filebrowser.browser # <<"context">>
    /\ pc' = AfterEntry("context", "done")[1]
    /\ pos' = AfterEntry("context", "done")[2]
    /\ UNCHANGED <<options, selected, gui_option, radio_columns, optsframe,
                   group_frames, tk_vars, builders, error, Others>>

\* build_panel, second loop, an option whose file browser is ["context"]:
\* set_context_action_option replaces the action option's name by the
\* variable of the option with that flag
ResolveContext ==
    /\ pc = "context"
    /\ ~skip(options[pos].key)
    /\ gui_option[pos].filebrowser # None
    /\ gui_option[pos].filebrowser.browser = <<"context">>
    /\ LET name == gui_option[pos].filebrowser.action_option.name
           fails == context_actions_raise(options)
       IN  IF fails # "none"
           THEN /\ pc' = "raised"
                /\ error' = fails
                /\ UNCHANGED <<gui_option, pos>>
           ELSE IF context_action(options, selected, name) = 0
           THEN /\ pc' = "raised"
                /\ error' = "KeyError"
                /\ UNCHANGED <<gui_option, pos>>
           ELSE /\ gui_option' =
                      [gui_option EXCEPT ![pos].filebrowser.action_option =
                          [resolved |-> TRUE,
                           var |-> context_action(options, selected, name)]]
                /\ pc' = AfterEntry("context", "done")[1]
                /\ pos' = AfterEntry("context", "done")[2]
                /\ UNCHANGED error
    /\ UNCHANGED <<options, selected, radio_columns, optsframe, group_frames,
                   tk_vars, builders, Others>>

\* The entries whose control has a context button
ContextOptions ==
    {i \in DOMAIN options :
        /\ ~skip(options[i].key)
        /\ gui_option[i] # None
        /\ gui_option[i].filebrowser # None
        /\ gui_option[i].filebrowser.browser = <<"context">>}

\* The values the user gives a variable through its control
UserValues(class) ==
    IF class = "BooleanVar" THEN {Bool(TRUE), Bool(FALSE)}
    ELSE {Str(S("a")), Str(S("b"))}

\* After the build the user clicks the context button of an entry:
\* ask_context reads the action option's variable, calls the file handler
\* and writes a result that is not empty to the entry's variable.
ClickContext ==
    /\ pc = "done"
    /\ Len(clicks) < MaxClicks
    /\ \E i \in ContextOptions :
          LET fb == gui_option[i].filebrowser
              selected_action == tk_vars[fb.action_option.var].val
          IN  /\ clicks' = Append(clicks, i)
              /\ handled' = handler_call("context", fb.command, selected_action,
                                         fb.destination)
              /\ \E filename \in {None, Str(S("c"))} :
                    tk_vars' = [tk_vars EXCEPT ![selected[i]].val =
                                   Str(ask_context(@.val, filename))]
    /\ UNCHANGED <<options, selected, gui_option, radio_columns, optsframe,
                   group_frames, builders, pc, pos, error,
                   containerVars, sliderVars, browserVars, builderVars>>

\* After the build the user changes the value of an action option.
SetActionOption ==
    /\ pc = "done"
    /\ \E i \in ContextOptions :
          LET k == gui_option[i].filebrowser.action_option.var
          IN  \E v \in UserValues(tk_vars[k].class) :
                 /\ tk_vars[k].val # v
                 /\ tk_vars' = [tk_vars EXCEPT ![k].val = v]
    /\ UNCHANGED <<options, selected, gui_option, radio_columns, optsframe,
                   group_frames, builders, pc, pos, error, Others>>

Next ==
    \/ SkipHelptext
    \/ GetGroupFrame
    \/ Construct
    \/ AttachOption
    \/ PassContext
    \/ ResolveContext
    \/ ClickContext
    \/ SetActionOption

Spec == Init /\ [][Next]_vars

IsOption(i) == options[i].key # S("helptext")

\* The lower-cased group name of option i, "_master" when it has none
GroupName(i) ==
    IF options[i].val.group = None THEN S("_master")
    ELSE lower(options[i].val.group.val)

Range(f) == {f[x] : x \in DOMAIN f}

\* The check button options that were routed into the container of group g
RoutedInto(g) ==
    {i \in DOMAIN options :
        /\ IsOption(i)
        /\ gui_option[i] # None
        /\ gui_option[i].control = "Checkbutton"
        /\ gui_option[i].ctl_parent \in Range(group_frames[g].chkbtns.subframes)}

\* C2: once build_panel has finished, a group's check button region is
\* packed only if at least one check button was routed into the group's
\* check button container.
C2_PackedOnlyWithCheckbox ==
    pc = "done" =>
        \A g \in DOMAIN group_frames :
            group_frames[g].chk_packed => RoutedInto(g) # {}

BuildersFor(key) == {n \in DOMAIN builders : builders[n] = key}

\* The first loop of build_panel has visited every entry
Built == pc \in {"context", "done"}

\* C5: no key ever has more than one ControlBuilder and the "helptext" key
\* never has one; once every entry was visited each key but "helptext" has
\* exactly one ControlBuilder, built for that key, attached as _gui_option,
\* and a bound variable of its own attached as selected, the one its builder
\* made; the "helptext" entry has neither.
C5_RenderedOnce ==
    /\ \A i \in DOMAIN options :
          /\ Cardinality(BuildersFor(options[i].key)) <= 1
          /\ ~IsOption(i) =>
                /\ BuildersFor(options[i].key) = {}
                /\ gui_option[i] = None
                /\ selected[i] = 0
    /\ Built =>
          \A i \in DOMAIN options :
             IsOption(i) =>
                /\ Cardinality(BuildersFor(options[i].key)) = 1
                /\ gui_option[i] # None
                /\ gui_option[i].state = "built"
                /\ gui_option[i].title = options[i].key
                /\ selected[i] \in DOMAIN tk_vars
                /\ builders[selected[i]] = options[i].key
                /\ tk_vars[selected[i]].class = gui_option[i].tk_var.class
                /\ \A j \in DOMAIN options : j # i => selected[j] # selected[i]
    /\ Built => Len(builders) = Cardinality({i \in DOMAIN options : IsOption(i)})

C5_Witness ==
    /\ pc = "done"
    /\ Len(options) = 3
    /\ ~IsOption(2)
    /\ IsOption(1) /\ IsOption(3)
    /\ builders = <<options[1].key, options[3].key>>
    /\ selected = <<1, 0, 2>>
    /\ gui_option[3].control = "Checkbutton"

\* The entries whose group frame has been looked up
Visited ==
    {i \in DOMAIN options :
        /\ IsOption(i)
        /\ \/ pc \in {"context", "done"}
           \/ pc = "build" /\ i < pos
           \/ pc = "builder" /\ i <= pos
           \/ pc = "raised" /\ Len(builders) > 0
                 /\ \E n \in DOMAIN builders : builders[n] = options[i].key}

\* C6: the groups are keyed by lower-cased name: there is one region per
\* distinct lower-cased group name among the options visited, options
\* without a group name counting as the one default group; every built option
\* sits in the region of its lower-cased group name, whatever the letter case
\* it was given in; a named group's region is a label frame titled with the
\* title-cased name and the default group's region is a plain frame without
\* title.
C6_GroupLookupOrCreate ==
    /\ Len(group_frames) = Cardinality({GroupName(i) : i \in Visited})
    /\ \A g, h \in DOMAIN group_frames :
          g # h => /\ group_frames[g].group # group_frames[h].group
                   /\ group_frames[g].frame # group_frames[h].frame
    /\ \A i \in Visited :
          \E g \in DOMAIN group_frames :
             /\ group_frames[g].group = GroupName(i)
             /\ gui_option[i] # None =>
                   gui_option[i].frame = Append(group_frames[g].frame, "frame")
    /\ \A g \in DOMAIN group_frames :
          IF group_frames[g].group = S("_master")
          THEN group_frames[g].class = "Frame" /\ group_frames[g].text = None
          ELSE /\ group_frames[g].class = "LabelFrame"
               /\ \E i \in Visited :
                     /\ options[i].val.group # None
                     /\ group_frames[g].text = Str(title(options[i].val.group.val))

C6_Witness ==
    /\ pc = "done"
    /\ Len(options) = 3
    /\ IsOption(1) /\ IsOption(2) /\ IsOption(3)
    /\ options[1].val.group = Str(S("OUTPUT"))
    /\ options[2].val.group = None
    /\ options[3].val.group = Str(S("output"))
    /\ Len(group_frames) = 2
    /\ group_frames[1].group = S("output")
    /\ group_frames[1].text = Str(S("Output"))
    /\ group_frames[2].text = None
    /\ gui_option[3].control = "Checkbutton"
    /\ gui_option[1].frame = Append(group_frames[1].frame, "frame")

\* The entries whose sysbrowser spec asks for the context dialog
WantsContext ==
    {i \in DOMAIN options :
        /\ IsOption(i)
        /\ options[i].val.sysbrowser # None
        /\ options[i].val.sysbrowser.browser = <<"context">>}

\* The entry that the action option of entry i names, by its first flag
NamedOption(i) ==
    CHOOSE j \in DOMAIN options :
        /\ IsOption(j)
        /\ Str(options[j].val.opts[1]) = options[i].val.sysbrowser.action_option

\* Every option has its builder and its bound variable attached
AllAttached ==
    \A j \in DOMAIN options :
        IsOption(j) => gui_option[j] # None /\ selected[j] \in DOMAIN tk_vars

\* The action option of entry i was replaced by a variable
Resolved(i) ==
    /\ gui_option[i] # None
    /\ gui_option[i].filebrowser # None
    /\ gui_option[i].filebrowser.action_option.resolved

\* A context action option is resolved only when every option is attached,
\* and to the variable of the option it names
ResolvedAfterBuild ==
    \A i \in WantsContext :
        Resolved(i) =>
            /\ AllAttached
            /\ gui_option[i].filebrowser.action_option.var = selected[NamedOption(i)]

\* Every click of a context button hands the file handler the value the
\* named option's variable holds at the click, and the spec's command and
\* destination
ClickReadsLive ==
    clicks' # clicks =>
        LET i == clicks'[Len(clicks')]
        IN  /\ i \in WantsContext
            /\ handled' = [handletype |-> "context",
                           command    |-> options[i].val.sysbrowser.command,
                           action     |-> tk_vars[selected[NamedOption(i)]].val,
                           variable   |-> options[i].val.sysbrowser.destination]

\* Once every option is attached the action option of every context entry
\* gets resolved: the build does not end in the resolution, and a finished
\* build has resolved them all
ResolvesContext ==
    /\ (pc = "raised" /\ AllAttached) => WantsContext = {}
    /\ pc = "done" => \A i \in WantsContext : Resolved(i)

\* C14: the action option of a context file browser is resolved only after
\* every option but "helptext" is built and has its variable attached, it is
\* resolved once they are, and from then on every click of a context button
\* passes the file handler the value the named action option's variable holds
\* at that click, with the spec's command and destination.
C14_ContextWiring ==
    /\ [](ResolvedAfterBuild /\ ResolvesContext)
    /\ [][ClickReadsLive]_vars

=============================================================================
